---- MODULE Spec2Model ----
(***************************************************************************)
(* Task lifecycle manager of microfunc (src/task_manager.py): the SQLite   *)
(* task store, add_or_update_task, update_task_status,                     *)
(* sync_tasks_from_config, execute_automated_task and the scheduler        *)
(* thread, modelled statement by statement on the one shared connection.   *)
(***************************************************************************)
EXTENDS Integers, Sequences, FiniteSets, TLC

VARIABLES
    dbTasks,     \* table tasks as committed in the database file (set of rows)
    dbHistory,   \* table task_history as committed (rows in AUTOINCREMENT order)
    txTasks,     \* table tasks as self.conn sees it (uncommitted writes included)
    txHistory,   \* table task_history as self.conn sees it
    notes,       \* webhook notifications posted by the foreground call in
                 \* progress (and by the scheduler meanwhile), in order
    now,         \* the clock read by datetime.datetime.now()
    ctx,         \* per thread: the call in progress, its position and locals
    conf,        \* self.config and the task_manager/communication settings
    syncLog,     \* observation: table snapshots at the end of consecutive syncs
    faults,      \* storage failures the environment may still inject
    threads,     \* scheduler threads this manager has started (daemon threads
                 \* that never end, see run_scheduler)
    cmd          \* the text execute_automated_task builds: the script path
                 \* and parameters it is given and the command line it hands
                 \* to subprocess.Popen; the exit code and output of the
                 \* process and the comment of the status write that follows

vars == <<dbTasks, dbHistory, txTasks, txHistory, notes, now, ctx, conf, syncLog,
         faults, threads, cmd>>

----------------------------------------------------------------------------
(* Bounds of the model *)

MaxHist == 4
MaxClock == 2
MaxFaults == 1

\* entries in one parameters mapping
MaxParams == 2

\* characters of the longest captured output
MaxOutput == 230

----------------------------------------------------------------------------
(* Values *)

Null == "null"

TaskStatus == {"pending", "in_progress", "completed", "blocked", "failed"}

Ids == {"T1", "T2"}

Types == {"manual", "automated"}

\* statuses the CLI's task_update is given in the model
UpdateStatuses == {"pending", "in_progress", "completed"}

\* a status outside the enumeration, as a caller may supply it
OtherStatuses == {"archived"}

\* the thread that runs __init__ and the CLI commands, and the scheduler thread
Threads == {"fg", "sched"}

\* a declared task of the manifest: the keys sync_tasks_from_config reads
ManualDef(id, st) ==
    [id |-> id, status |-> st, type |-> "manual", schedule |-> Null, script |-> Null]

AutomatedDef(id, st, sch, scr) ==
    [id |-> id, status |-> st, type |-> "automated", schedule |-> sch,
     script |-> scr]

\* the tasks a direct add_or_update_task call is given in the model
UpsertDefs == { ManualDef("T2", "completed") }

\* a manifest that declares two tasks with distinct ids
TwoTasks ==
    [manual |-> <<ManualDef("T1", "pending")>>,
     automated |-> <<AutomatedDef("T2", "pending", "* * * * *", "run.sh")>>]

\* a manifest that declares one id in both lists, with two statuses; its
\* automated definition has no script key
OneIdTwice ==
    [manual |-> <<ManualDef("T1", "completed")>>,
     automated |-> <<AutomatedDef("T1", "pending", "* * * * *", Null)>>]

\* notify: notify_assignees off ("off"); on with plain webhooks ("ok"); on
\* with a webhook whose header holds "${VAR}", subscribed to every event
\* ("header_var") or to "task.status_changed" alone ("header_var_status");
\* enabled and auto_update_status are the task_manager settings of those names
Settings(m, n, e, a) ==
    [manifest |-> m, notify |-> n, enabled |-> e, auto_update_status |-> a]

Configs ==
    { Settings(TwoTasks, "ok", TRUE, TRUE),
      Settings(OneIdTwice, "ok", TRUE, TRUE),
      Settings(TwoTasks, "header_var", TRUE, TRUE),
      Settings(TwoTasks, "header_var_status", TRUE, TRUE),
      Settings(OneIdTwice, "off", TRUE, FALSE),
      Settings(OneIdTwice, "off", FALSE, TRUE) }

----------------------------------------------------------------------------
(* The connection *)

\* a connection opened with check_same_thread=False: every thread may use it
SameThreadOff(c) == c \in Threads

\* sqlite3.connect(self.storage_path): check_same_thread defaults to True, so
\* every use of self.conn from another thread raises ProgrammingError
SameThread(c) == c = "fg"

HasTask(tasks, id) == \E r \in tasks : r.id = id

\* cursor.fetchone() of SELECT ... WHERE id = ?
FetchTask(tasks, id) == CHOOSE r \in tasks : r.id = id

\* INSERT INTO tasks: id TEXT PRIMARY KEY rejects a second row with the id
InsertViolatesKey(tasks, id) == HasTask(tasks, id)

NewRow(id, typ, st, sch, scr, t) ==
    [id |-> id, type |-> typ, status |-> st, schedule |-> sch, script |-> scr,
     updated_at |-> t]

InsertTask(tasks, id, typ, st, sch, scr, t) ==
    tasks \cup {NewRow(id, typ, st, sch, scr, t)}

\* the UPDATE without its WHERE clause: every row takes the new values
UpdateTaskNoWhere(tasks, id, typ, st, sch, scr, t) ==
    { [r EXCEPT !.type = typ, !.status = st, !.schedule = sch,
                !.script = scr, !.updated_at = t] : r \in tasks }

\* the write of an existing id done as an INSERT into a table without a key
UpdateTaskAsInsert(tasks, id, typ, st, sch, scr, t) ==
    tasks \cup {[id |-> id, type |-> typ, status |-> st, schedule |-> sch,
                 script |-> scr, updated_at |-> t]}

\* UPDATE tasks SET title = ?, ..., status = ?, ..., type = ?, ...,
\* updated_at = ? WHERE id = ?
UpdateTask(tasks, id, typ, st, sch, scr, t) ==
    { IF r.id = id
        THEN [r EXCEPT !.type = typ, !.status = st, !.schedule = sch,
                       !.script = scr, !.updated_at = t]
        ELSE r : r \in tasks }

\* UPDATE tasks SET status = ?, updated_at = ? WHERE id = ?
UpdateStatus(tasks, id, st, t) ==
    { IF r.id = id THEN [r EXCEPT !.status = st, !.updated_at = t] ELSE r :
      r \in tasks }

\* INSERT INTO task_history (...) VALUES (?, ?, ?, ?, ?, ?)
HistoryEntry(id, old, new, by, t, cmt) ==
    [task_id |-> id, old_status |-> old, new_status |-> new, changed_by |-> by,
     timestamp |-> t, comment |-> cmt]

\* the history rows of one task, in write order
HistoryOf(hist, id) == SelectSeq(hist, LAMBDA h : h.task_id = id)

Snapshot == [tasks |-> txTasks, hist |-> txHistory, notes |-> notes]

NoSnapshot == [tasks |-> {}, hist |-> <<>>, notes |-> <<>>]

----------------------------------------------------------------------------
(* Threads, calls and their locals *)

\* No call in progress. The fields are the locals of the call frames:
\*   fn..cont   add_or_update_task ("aut") or update_task_status ("uts")
\*   eid..econt execute_automated_task
\*   epre       observation: the tables when execute_automated_task read the task
\*   q, okAll   the tasks still to visit in a sync or a scan
\*   got        the history a get_task call returned
Blank ==
    [top |-> "idle", pc |-> "idle", constructing |-> FALSE,
     fn |-> Null, tid |-> Null, st |-> Null, by |-> Null, cmt |-> Null,
     typ |-> Null, sch |-> Null, scr |-> Null,
     old |-> Null, found |-> FALSE, t |-> 0, flt |-> {},
     pre |-> NoSnapshot, ret |-> Null, cont |-> Null,
     eid |-> Null, escript |-> Null, eout |-> Null, eret |-> Null, econt |-> Null,
     epre |-> NoSnapshot,
     q |-> <<>>, okAll |-> TRUE, got |-> <<>>]

\* a storage step (an execute() or the commit) may fail, while the model's
\* budget of failures lasts
MayFail == IF faults > 0 THEN BOOLEAN ELSE {FALSE}

\* the bound leaves room for k more history rows
RoomFor(k) == Len(txHistory) + k <= MaxHist

\* the stored status of each id (Null when the id is not stored)
StatusNow == [i \in Ids |-> IF HasTask(txTasks, i) THEN FetchTask(txTasks, i).status
                                                 ELSE Null]

\* the history rows a sync of the tasks q appends at most, from statuses stat
RECURSIVE SyncNeeds(_, _)
SyncNeeds(stat, q) ==
    IF q = <<>> THEN 0
    ELSE (IF stat[Head(q).id] = Head(q).status THEN 0 ELSE 1)
         + SyncNeeds([stat EXCEPT ![Head(q).id] = Head(q).status], Tail(q))

\* the history rows an execute of id appends at most
ExecNeeds(id) ==
    IF StatusNow[id] = Null THEN 0
    ELSE IF StatusNow[id] = "in_progress" THEN 1 ELSE 2

\* enter add_or_update_task(task_id=d.id, status=d.status, task_type=d.type, ...)
CallUpsertFrame(r, d, cont) ==
    [r EXCEPT !.pc = "aut_select", !.fn = "aut", !.tid = d.id, !.st = d.status,
              !.by = "system", !.cmt = Null, !.typ = d.type, !.sch = d.schedule,
              !.scr = d.script, !.old = Null, !.found = FALSE, !.t = 0,
              !.flt = {}, !.pre = Snapshot, !.ret = Null, !.cont = cont]

\* enter update_task_status(task_id, new_status, changed_by, comment)
CallStatusFrame(r, id, st, by, cmt, cont) ==
    [r EXCEPT !.pc = "uts_select", !.fn = "uts", !.tid = id, !.st = st,
              !.by = by, !.cmt = cmt, !.typ = Null, !.sch = Null, !.scr = Null,
              !.old = Null, !.found = FALSE, !.t = 0,
              !.flt = {}, !.pre = Snapshot, !.ret = Null, !.cont = cont]

\* the declared tasks in the order sync_tasks_from_config visits them
SyncQueue == conf.manifest.manual \o conf.manifest.automated

\* TaskManager.__init__ after _init_database: no scheduler yet; a disabled
\* manager returns at once, an enabled one is about to sync
InitCtx ==
    [c \in Threads |->
        IF c = "fg"
          THEN IF conf.enabled
                 THEN [Blank EXCEPT !.top = "sync", !.pc = "sync_next",
                                    !.constructing = TRUE, !.q = SyncQueue]
                 ELSE Blank
          ELSE [Blank EXCEPT !.top = "off", !.pc = "off"]]

\* no command has been built
NoCommand ==
    [script |-> Null, parameters |-> <<>>, line |-> Null,
     returncode |-> -1, stdout |-> "", stderr |-> "", comment |-> Null]

NoSyncLog == [n |-> 0, a |-> NoSnapshot, aOk |-> FALSE, b |-> NoSnapshot, bOk |-> FALSE]

Init ==
    /\ dbTasks = {}
    /\ dbHistory = <<>>
    /\ txTasks = {}
    /\ txHistory = <<>>
    /\ notes = <<>>
    /\ now = 1
    /\ conf \in Configs
    /\ ctx = InitCtx
    /\ syncLog = NoSyncLog
    /\ faults = 0
    /\ threads = 0
    /\ cmd = NoCommand

\* the same, on storage that may fail
InitFaults ==
    /\ dbTasks = {}
    /\ dbHistory = <<>>
    /\ txTasks = {}
    /\ txHistory = <<>>
    /\ notes = <<>>
    /\ now = 1
    /\ conf \in Configs
    /\ ctx = InitCtx
    /\ syncLog = NoSyncLog
    /\ faults = MaxFaults
    /\ threads = 0
    /\ cmd = NoCommand

----------------------------------------------------------------------------
(* add_or_update_task *)

\* cursor(); SELECT * FROM tasks WHERE id = ?; current_time = now()
AutSelect(c) ==
    /\ ctx[c].pc = "aut_select"
    /\ ctx' = [ctx EXCEPT ![c] =
          IF ~SameThread(c)
            THEN [@ EXCEPT !.pc = "f_except"]
            ELSE [@ EXCEPT !.pc = "aut_write",
                           !.found = HasTask(txTasks, ctx[c].tid),
                           !.old = IF HasTask(txTasks, ctx[c].tid)
                                     THEN FetchTask(txTasks, ctx[c].tid).status
                                     ELSE Null,
                           !.t = now]]
    /\ UNCHANGED <<dbTasks, dbHistory, txTasks, txHistory, notes, now, conf, cmd, threads, syncLog, faults>>

\* the row the UPDATE or the INSERT leaves in the connection's view
AutWriteTasks(r) ==
    IF r.found
      THEN UpdateTask(txTasks, r.tid, r.typ, r.st, r.sch, r.scr, r.t)
      ELSE InsertTask(txTasks, r.tid, r.typ, r.st, r.sch, r.scr, r.t)

\* history is written when the task is new or its status differs
AutNeedsHistory(r) == ~r.found \/ r.old # r.st

\* if existing_task: UPDATE tasks ... else: INSERT INTO tasks ...
AutWrite(c) ==
    /\ ctx[c].pc = "aut_write"
    /\ \E fault \in MayFail :
         LET r == ctx[c] IN
         /\ faults' = faults - (IF fault THEN 1 ELSE 0)
         /\ IF fault \/ (~r.found /\ InsertViolatesKey(txTasks, r.tid))
           THEN /\ ctx' = [ctx EXCEPT ![c] =
                      [@ EXCEPT !.pc = "f_except", !.flt = @ \cup {"row"}]]
                /\ UNCHANGED txTasks
           ELSE /\ txTasks' = AutWriteTasks(r)
                /\ ctx' = [ctx EXCEPT ![c] =
                      [@ EXCEPT !.pc = IF AutNeedsHistory(r) THEN "f_history"
                                                             ELSE "f_commit",
                                !.cmt = IF r.found THEN "sync" ELSE "created"]]
    /\ UNCHANGED <<dbTasks, dbHistory, txHistory, notes, now, conf, cmd, threads, syncLog>>

----------------------------------------------------------------------------
(* update_task_status *)

\* update_task_status answering True for an id the SELECT does not find
StatusSelectUnknownTrue(r) ==
    IF ~HasTask(txTasks, r.tid)
      THEN [r EXCEPT !.pc = "f_ret", !.ret = "true"]
      ELSE IF FetchTask(txTasks, r.tid).status = r.st
        THEN [r EXCEPT !.pc = "f_ret", !.ret = "true", !.found = TRUE,
                       !.old = FetchTask(txTasks, r.tid).status]
        ELSE [r EXCEPT !.pc = "uts_write", !.found = TRUE,
                       !.old = FetchTask(txTasks, r.tid).status]

\* update_task_status without "if old_status == new_status: return True"
StatusSelectNoShortcut(r) ==
    IF ~HasTask(txTasks, r.tid)
      THEN [r EXCEPT !.pc = "f_ret", !.ret = "false"]
      ELSE [r EXCEPT !.pc = "uts_write", !.found = TRUE,
                     !.old = FetchTask(txTasks, r.tid).status]

\* the outcome of the SELECT status ... and of the two early returns
StatusSelect(r) ==
    IF ~HasTask(txTasks, r.tid)
      THEN [r EXCEPT !.pc = "f_ret", !.ret = "false"]
      ELSE IF FetchTask(txTasks, r.tid).status = r.st
        THEN [r EXCEPT !.pc = "f_ret", !.ret = "true", !.found = TRUE,
                       !.old = FetchTask(txTasks, r.tid).status]
        ELSE [r EXCEPT !.pc = "uts_write", !.found = TRUE,
                       !.old = FetchTask(txTasks, r.tid).status]

UtsSelect(c) ==
    /\ ctx[c].pc = "uts_select"
    /\ ctx' = [ctx EXCEPT ![c] =
          IF ~SameThread(c) THEN [@ EXCEPT !.pc = "f_except"]
                            ELSE StatusSelect(@)]
    /\ UNCHANGED <<dbTasks, dbHistory, txTasks, txHistory, notes, now, conf, cmd, threads, syncLog, faults>>

\* current_time = now(); UPDATE tasks SET status = ?, updated_at = ?
UtsWrite(c) ==
    /\ ctx[c].pc = "uts_write"
    /\ \E fault \in MayFail :
         /\ faults' = faults - (IF fault THEN 1 ELSE 0)
         /\ IF fault
           THEN /\ ctx' = [ctx EXCEPT ![c] =
                      [@ EXCEPT !.pc = "f_except", !.flt = @ \cup {"row"}]]
                /\ UNCHANGED txTasks
           ELSE /\ txTasks' = UpdateStatus(txTasks, ctx[c].tid, ctx[c].st, now)
                /\ ctx' = [ctx EXCEPT ![c] = [@ EXCEPT !.pc = "f_history", !.t = now]]
    /\ UNCHANGED <<dbTasks, dbHistory, txHistory, notes, now, conf, cmd, threads, syncLog>>

----------------------------------------------------------------------------
(* The steps both operations share *)

\* an _add_task_history that keeps one row per task: the new entry replaces
\* the task's earlier ones
AddTaskHistoryReplacing(hist, r, fault) ==
    IF fault THEN hist
             ELSE Append(SelectSeq(hist, LAMBDA h : h.task_id # r.tid),
                         HistoryEntry(r.tid, r.old, r.st, r.by, now, r.cmt))

\* _add_task_history: the INSERT, and the except that swallows its failure
AddTaskHistory(hist, r, fault) ==
    IF fault THEN hist
             ELSE Append(hist, HistoryEntry(r.tid, r.old, r.st, r.by, now, r.cmt))

FHistory(c) ==
    /\ ctx[c].pc = "f_history"
    /\ \E fault \in MayFail :
         /\ faults' = faults - (IF fault THEN 1 ELSE 0)
         /\ txHistory' = AddTaskHistory(txHistory, ctx[c], fault)
         /\ ctx' = [ctx EXCEPT ![c] =
               [@ EXCEPT !.pc = "f_notify",
                         !.flt = IF fault THEN @ \cup {"hist"} ELSE @]]
    /\ UNCHANGED <<dbTasks, dbHistory, txTasks, notes, now, conf, cmd, threads, syncLog>>

\* the payload of _notify_task_created / _notify_status_change
Notification(r) ==
    [event |-> IF r.fn = "aut" /\ ~r.found THEN "task.created"
                                           ELSE "task.status_changed",
     task_id |-> r.tid, old_status |-> r.old, new_status |-> r.st]

\* re.findall without "import re": NameError when a webhook subscribed to the
\* event has a header with "${"
WebhookRaises(event) ==
    \/ conf.notify = "header_var"
    \/ conf.notify = "header_var_status" /\ event = "task.status_changed"

\* _notify_*: returns at once unless notify_assignees; _send_webhook_notifications
\* posts, or raises NameError (re is not imported) on a "${" header
FNotify(c) ==
    /\ ctx[c].pc = "f_notify"
    /\ notes' = IF conf.notify = "ok" THEN Append(notes, Notification(ctx[c]))
                                      ELSE notes
    /\ ctx' = [ctx EXCEPT ![c] =
          [@ EXCEPT !.pc = IF WebhookRaises(Notification(ctx[c]).event)
                             THEN "f_except" ELSE "f_commit"]]
    /\ UNCHANGED <<dbTasks, dbHistory, txTasks, txHistory, now, conf, cmd, threads, syncLog, faults>>

\* self.conn.commit(); return True
FCommit(c) ==
    /\ ctx[c].pc = "f_commit"
    /\ \E fault \in MayFail :
         /\ faults' = faults - (IF fault THEN 1 ELSE 0)
         /\ IF fault
           THEN /\ ctx' = [ctx EXCEPT ![c] =
                      [@ EXCEPT !.pc = "f_except", !.flt = @ \cup {"commit"}]]
                /\ UNCHANGED <<dbTasks, dbHistory>>
           ELSE /\ dbTasks' = txTasks
                /\ dbHistory' = txHistory
                /\ ctx' = [ctx EXCEPT ![c] = [@ EXCEPT !.pc = "f_ret", !.ret = "true"]]
    /\ UNCHANGED <<txTasks, txHistory, notes, now, conf, cmd, threads, syncLog>>

\* except Exception: self.conn.rollback(); return False
\* (from another thread the rollback raises too, and the exception escapes)
FExcept(c) ==
    /\ ctx[c].pc = "f_except"
    /\ IF SameThread(c)
         THEN /\ txTasks' = dbTasks
              /\ txHistory' = dbHistory
              /\ ctx' = [ctx EXCEPT ![c] = [@ EXCEPT !.pc = "f_ret", !.ret = "false"]]
         ELSE /\ ctx' = [ctx EXCEPT ![c] = [@ EXCEPT !.pc = "f_ret", !.ret = "raise"]]
              /\ UNCHANGED <<txTasks, txHistory>>
    /\ UNCHANGED <<dbTasks, dbHistory, notes, now, conf, cmd, threads, syncLog, faults>>

----------------------------------------------------------------------------
(* sync_tasks_from_config *)

\* what the sync leaves behind, for comparing two consecutive syncs
SyncLogged(ok) ==
    IF syncLog.n = 0
      THEN [n |-> 1, a |-> Snapshot, aOk |-> ok, b |-> NoSnapshot, bOk |-> FALSE]
      ELSE [n |-> 2,
            a |-> IF syncLog.n = 1 THEN syncLog.a ELSE syncLog.b,
            aOk |-> IF syncLog.n = 1 THEN syncLog.aOk ELSE syncLog.bOk,
            b |-> Snapshot, bOk |-> ok]

\* for task in manual_tasks: add_or_update_task(...);
\* for task in automated_tasks: add_or_update_task(...)
SyncNext(c) ==
    /\ ctx[c].pc = "sync_next"
    /\ IF ctx[c].q = <<>>
         THEN /\ ctx' = [ctx EXCEPT ![c] = [@ EXCEPT !.pc = "sync_ret"]]
              /\ syncLog' = SyncLogged(ctx[c].okAll)
         ELSE /\ ctx' = [ctx EXCEPT ![c] =
                    CallUpsertFrame([@ EXCEPT !.q = Tail(@)], Head(ctx[c].q), "sync")]
              /\ UNCHANGED syncLog
    /\ UNCHANGED <<dbTasks, dbHistory, txTasks, txHistory, notes, now, conf, cmd, threads, faults>>

\* a constructor that starts the scheduler whatever auto_update_status says
AutoStartAlways == TRUE

\* "if self.auto_update_status:" before self._start_scheduler()
AutoStart == conf.auto_update_status

\* _start_scheduler with n scheduler threads alive: nothing when there is
\* one, else one more thread
StartScheduler(n) == IF n > 0 THEN n ELSE n + 1

\* the sync returns; in __init__ the scheduler thread is started next
SyncReturn(c) ==
    /\ ctx[c].pc = "sync_ret"
    /\ IF ctx[c].constructing /\ AutoStart
         THEN /\ threads' = StartScheduler(threads)
              /\ ctx' = [d \in Threads |->
                    IF d = c THEN Blank
                    ELSE IF threads' > threads
                      THEN [Blank EXCEPT !.top = "sleep", !.pc = "sleep"]
                      ELSE ctx[d]]
         ELSE /\ threads' = threads
              /\ ctx' = [ctx EXCEPT ![c] = Blank]
    /\ notes' = <<>>
    /\ UNCHANGED <<dbTasks, dbHistory, txTasks, txHistory, now, conf, cmd, syncLog, faults>>

----------------------------------------------------------------------------
(* execute_automated_task *)

\* execute_automated_task without the check of task["type"]
ExecGetAnyType(c) ==
    /\ ctx[c].pc = "exec_get"
    /\ ctx' = [ctx EXCEPT ![c] =
          IF \/ ~SameThread(c)
             \/ ~HasTask(txTasks, ctx[c].eid)
            THEN [@ EXCEPT !.pc = "e_ret", !.eret = "false"]
            ELSE CallStatusFrame(
                   [@ EXCEPT !.escript = FetchTask(txTasks, ctx[c].eid).script,
                             !.epre = Snapshot],
                   ctx[c].eid, "in_progress", "system", "started", "exec_started")]
    /\ UNCHANGED <<dbTasks, dbHistory, txTasks, txHistory, notes, now, conf, cmd, threads, syncLog, faults>>

\* task = self.get_task(task_id); the two early returns; then
\* update_task_status(task_id, "in_progress", "system", ...)
ExecGet(c) ==
    /\ ctx[c].pc = "exec_get"
    /\ ctx' = [ctx EXCEPT ![c] =
          IF \/ ~SameThread(c)
             \/ ~HasTask(txTasks, ctx[c].eid)
             \/ FetchTask(txTasks, ctx[c].eid).type # "automated"
            THEN [@ EXCEPT !.pc = "e_ret", !.eret = "false"]
            ELSE CallStatusFrame(
                   [@ EXCEPT !.escript = FetchTask(txTasks, ctx[c].eid).script,
                             !.epre = Snapshot],
                   ctx[c].eid, "in_progress", "system", "started", "exec_started")]
    /\ UNCHANGED <<dbTasks, dbHistory, txTasks, txHistory, notes, now, conf, cmd, threads, syncLog, faults>>

\* if not script_path or not os.path.exists(script_path): ... "failed"
ExecScript(c) ==
    /\ ctx[c].pc = "exec_script"
    /\ \E onDisk \in BOOLEAN :
         ctx' = [ctx EXCEPT ![c] =
            IF ctx[c].escript = Null \/ ~onDisk
              THEN CallStatusFrame([@ EXCEPT !.eout = "no_script"], ctx[c].eid,
                                   "failed", "system", "no_script", "exec_false")
              ELSE [@ EXCEPT !.pc = "exec_spawn"]]
    /\ UNCHANGED <<dbTasks, dbHistory, txTasks, txHistory, notes, now, conf, cmd, threads, syncLog, faults>>

\* an executor that runs the command again when the child exits with a
\* nonzero code
ExecSpawnRetrying(c) ==
    /\ ctx[c].pc = "exec_spawn"
    /\ \E outcome \in {"exit0", "exit1", "raised"} :
         ctx' = [ctx EXCEPT ![c] =
            CASE outcome = "exit0" ->
                   CallStatusFrame([@ EXCEPT !.eout = outcome], ctx[c].eid,
                                   "completed", "system", "stdout", "exec_true")
              [] outcome = "exit1" /\ ctx[c].eout = Null ->
                   [@ EXCEPT !.eout = outcome]
              [] outcome = "exit1" /\ ctx[c].eout # Null ->
                   CallStatusFrame([@ EXCEPT !.eout = outcome], ctx[c].eid,
                                   "failed", "system", "stderr", "exec_false")
              [] OTHER -> [@ EXCEPT !.pc = "exec_except", !.eout = outcome]]
    /\ UNCHANGED <<dbTasks, dbHistory, txTasks, txHistory, notes, now, conf, cmd, threads, syncLog, faults>>

\* subprocess.Popen(...); process.communicate(); the two branches on returncode
ExecSpawn(c) ==
    /\ ctx[c].pc = "exec_spawn"
    /\ \E outcome \in {"exit0", "exit1", "raised"} :
         ctx' = [ctx EXCEPT ![c] =
            CASE outcome = "exit0" ->
                   CallStatusFrame([@ EXCEPT !.eout = outcome], ctx[c].eid,
                                   "completed", "system", "stdout", "exec_true")
              [] outcome = "exit1" ->
                   CallStatusFrame([@ EXCEPT !.eout = outcome], ctx[c].eid,
                                   "failed", "system", "stderr", "exec_false")
              [] OTHER -> [@ EXCEPT !.pc = "exec_except", !.eout = outcome]]
    /\ UNCHANGED <<dbTasks, dbHistory, txTasks, txHistory, notes, now, conf, cmd, threads, syncLog, faults>>

\* except Exception: update_task_status(task_id, "failed", ...); return False
ExecExcept(c) ==
    /\ ctx[c].pc = "exec_except"
    /\ ctx' = [ctx EXCEPT ![c] =
          CallStatusFrame(@, ctx[c].eid, "failed", "system", "exception",
                          "exec_handler")]
    /\ UNCHANGED <<dbTasks, dbHistory, txTasks, txHistory, notes, now, conf, cmd, threads, syncLog, faults>>

\* execute_automated_task returns to the CLI or to the scheduler's job; an
\* exception that escaped it ends the job and reaches run_scheduler's except
ExecReturn(c) ==
    /\ ctx[c].pc = "e_ret"
    /\ ctx' = [ctx EXCEPT ![c] =
          IF ctx[c].econt = "scan"
            THEN IF ctx[c].eret = "raise"
                   THEN [Blank EXCEPT !.top = "sleep", !.pc = "sleep"]
                   ELSE [@ EXCEPT !.pc = "scan_next"]
            ELSE Blank]
    /\ notes' = IF ctx[c].econt = "scan" THEN notes ELSE <<>>
    /\ UNCHANGED <<dbTasks, dbHistory, txTasks, txHistory, now, conf, cmd, threads, syncLog, faults>>

----------------------------------------------------------------------------
(* Return of add_or_update_task / update_task_status to its caller *)

\* where the caller goes on with the returned value
AfterReturn(r) ==
    CASE r.cont = "sync" ->
           IF r.ret = "raise" THEN Blank
           ELSE [r EXCEPT !.pc = "sync_next", !.okAll = @ /\ r.ret = "true"]
      [] r.cont = "exec_started" ->
           [r EXCEPT !.pc = IF r.ret = "raise" THEN "exec_except" ELSE "exec_script"]
      [] r.cont = "exec_true" ->
           IF r.ret = "raise" THEN [r EXCEPT !.pc = "exec_except"]
           ELSE [r EXCEPT !.pc = "e_ret", !.eret = "true"]
      [] r.cont = "exec_false" ->
           IF r.ret = "raise" THEN [r EXCEPT !.pc = "exec_except"]
           ELSE [r EXCEPT !.pc = "e_ret", !.eret = "false"]
      [] r.cont = "exec_handler" ->
           [r EXCEPT !.pc = "e_ret",
                     !.eret = IF r.ret = "raise" THEN "raise" ELSE "false"]
      [] r.cont = "sched" -> [Blank EXCEPT !.top = "sleep", !.pc = "sleep"]
      [] OTHER -> Blank

FReturn(c) ==
    /\ ctx[c].pc = "f_ret"
    /\ ctx' = [ctx EXCEPT ![c] = AfterReturn(@)]
    /\ notes' = IF AfterReturn(ctx[c]) = Blank THEN <<>> ELSE notes
    /\ UNCHANGED <<dbTasks, dbHistory, txTasks, txHistory, now, conf, cmd, threads, syncLog, faults>>

----------------------------------------------------------------------------
(* The scheduler thread *)

\* the sequences that list each element of S once (rows in storage order)
Orderings(S) ==
    { s \in [1..Cardinality(S) -> S] :
        \A i, j \in 1..Cardinality(S) : i # j => s[i] # s[j] }

\* list_tasks(status, task_type): "if status:" / "if task_type:" add the
\* filter (None and "" add none); the rows come in storage order; [] when the
\* query raises
ListTasks(c, status, task_type) ==
    IF ~SameThread(c) THEN {<<>>}
    ELSE Orderings({r \in txTasks :
                      /\ status \in {Null, ""} \/ r.status = status
                      /\ task_type \in {Null, ""} \/ r.type = task_type})

\* list_tasks(task_type="automated")
ListAutomated(c) == ListTasks(c, Null, "automated")

\* a listed task is executed when it is pending and has a schedule
DueNow(task) ==
    /\ task.status = "pending"
    /\ task.schedule # Null
    /\ task.schedule # ""

\* a run_scheduler without its "while True": the thread ends with the job
RunOnce == [Blank EXCEPT !.top = "off", !.pc = "off"]

\* the scheduler thread between two jobs, or back in run_scheduler's loop
Asleep == [Blank EXCEPT !.top = "sleep", !.pc = "sleep"]

\* a scan that lists every task and runs the executor for each of them
SchedScanEveryTask(c) ==
    /\ c = "sched"
    /\ \/ /\ ctx[c].pc = "sleep"
          /\ \E listed \in Orderings(txTasks) :
               ctx' = [ctx EXCEPT ![c] =
                  [@ EXCEPT !.top = "scan", !.pc = "scan_next", !.q = listed]]
          /\ UNCHANGED syncLog
       \/ /\ ctx[c].pc = "scan_next"
          /\ IF ctx[c].q = <<>>
               THEN /\ ctx' = [ctx EXCEPT ![c] = Asleep]
                    /\ UNCHANGED syncLog
               ELSE /\ RoomFor(ExecNeeds(Head(ctx[c].q).id))
                    /\ ctx' = [ctx EXCEPT ![c] =
                          [@ EXCEPT !.q = Tail(@), !.pc = "exec_get",
                                    !.eid = Head(ctx[c].q).id, !.econt = "scan",
                                      !.eout = Null]]
                    /\ syncLog' = NoSyncLog
    /\ UNCHANGED <<dbTasks, dbHistory, txTasks, txHistory, notes, now, conf, cmd, threads, faults>>

\* schedule.run_pending() runs check_and_execute_scheduled_tasks:
\* automated_tasks = self.list_tasks(task_type="automated"), then one
\* iteration of "for task in automated_tasks" per step; the job ends with
\* the list
SchedScan(c) ==
    /\ c = "sched"
    /\ \/ /\ ctx[c].pc = "sleep"
          /\ \E listed \in ListAutomated(c) :
               ctx' = [ctx EXCEPT ![c] =
                  [@ EXCEPT !.top = "scan", !.pc = "scan_next", !.q = listed]]
          /\ UNCHANGED syncLog
       \/ /\ ctx[c].pc = "scan_next"
          /\ IF ctx[c].q = <<>>
               THEN /\ ctx' = [ctx EXCEPT ![c] = Asleep]
                    /\ UNCHANGED syncLog
               ELSE IF DueNow(Head(ctx[c].q))
                 THEN /\ RoomFor(ExecNeeds(Head(ctx[c].q).id))
                      /\ ctx' = [ctx EXCEPT ![c] =
                            [@ EXCEPT !.q = Tail(@), !.pc = "exec_get",
                                      !.eid = Head(ctx[c].q).id, !.econt = "scan",
                                      !.eout = Null]]
                      /\ syncLog' = NoSyncLog
                 ELSE /\ ctx' = [ctx EXCEPT ![c] = [@ EXCEPT !.q = Tail(@)]]
                      /\ UNCHANGED syncLog
    /\ UNCHANGED <<dbTasks, dbHistory, txTasks, txHistory, notes, now, conf, cmd, threads, faults>>

\* the scheduler context issues update_task_status(task_id, new_status,
\* "system", comment) for a stored task, as execute_automated_task does,
\* while the foreground is inside a setStatus or an execute
SchedSetStatus ==
    /\ ctx["sched"].pc = "sleep"
    /\ ctx["fg"].top \in {"setStatus", "execute"}
    /\ ctx["fg"].pc = "uts_select"
    /\ \E id \in Ids, st \in {"in_progress", "failed"} :
         /\ HasTask(dbTasks, id)
         /\ ctx' = [ctx EXCEPT !["sched"] =
               CallStatusFrame([Blank EXCEPT !.top = "setStatus"], id, st,
                               "system", "note", "sched")]
    /\ UNCHANGED <<dbTasks, dbHistory, txTasks, txHistory, notes, now, conf, cmd, threads, syncLog, faults>>

----------------------------------------------------------------------------
(* Calls of the foreground thread *)

\* the foreground is between two calls and holds a manager: the factory
\* create_task_manager hands out none when task management is disabled
FgIdle ==
    /\ conf.enabled
    /\ ctx["fg"].pc = "idle"

\* a direct add_or_update_task(...)
CallUpsert ==
    /\ FgIdle
    /\ \E d \in UpsertDefs :
         /\ RoomFor(SyncNeeds(StatusNow, <<d>>))
         /\ ctx' = [ctx EXCEPT !["fg"] =
            CallUpsertFrame([Blank EXCEPT !.top = "upsert"], d, "top")]
    /\ syncLog' = NoSyncLog
    /\ UNCHANGED <<dbTasks, dbHistory, txTasks, txHistory, notes, now, conf, cmd, threads, faults>>

\* GrpcProject.task_update: "if status not in valid_statuses: return", then
\* update_task_status(task_id, status, "user", comment)
CallSetStatus ==
    /\ FgIdle
    /\ \E id \in Ids, st \in UpdateStatuses \cup OtherStatuses :
         IF st \notin TaskStatus
           THEN UNCHANGED <<ctx, syncLog>>
           ELSE /\ RoomFor(IF StatusNow[id] \in {Null, st} THEN 0 ELSE 1)
                /\ ctx' = [ctx EXCEPT !["fg"] =
                      CallStatusFrame([Blank EXCEPT !.top = "setStatus"], id, st,
                                      "user", "note", "top")]
                /\ syncLog' = NoSyncLog
    /\ UNCHANGED <<dbTasks, dbHistory, txTasks, txHistory, notes, now, conf, cmd, threads, faults>>

\* a direct update_task_status(task_id, new_status, "user", comment), which
\* does not look at new_status before writing it
CallUpdateTaskStatus ==
    /\ FgIdle
    /\ \E id \in Ids, st \in OtherStatuses :
         /\ RoomFor(IF StatusNow[id] \in {Null, st} THEN 0 ELSE 1)
         /\ ctx' = [ctx EXCEPT !["fg"] =
               CallStatusFrame([Blank EXCEPT !.top = "setStatus"], id, st,
                               "user", "note", "top")]
    /\ syncLog' = NoSyncLog
    /\ UNCHANGED <<dbTasks, dbHistory, txTasks, txHistory, notes, now, conf, cmd, threads, faults>>

\* GrpcProject.task_execute / a direct execute_automated_task(task_id)
CallExecute ==
    /\ FgIdle
    /\ \E id \in Ids :
         /\ RoomFor(ExecNeeds(id))
         /\ ctx' = [ctx EXCEPT !["fg"] =
            [Blank EXCEPT !.top = "execute", !.pc = "exec_get", !.eid = id,
                          !.econt = "top"]]
    /\ syncLog' = NoSyncLog
    /\ UNCHANGED <<dbTasks, dbHistory, txTasks, txHistory, notes, now, conf, cmd, threads, faults>>

\* SELECT ... FROM task_history WHERE task_id = ? ORDER BY timestamp DESC:
\* the rows of the task in any order that descends by timestamp (SQL leaves
\* the order of rows with equal timestamps open)
GetTaskHistory(hist, id) ==
    LET h == HistoryOf(hist, id) IN
    { [i \in 1..Len(h) |-> h[o[i]]] :
        o \in { p \in Orderings(1..Len(h)) :
                  \A i, j \in 1..Len(h) :
                     i < j => h[p[i]].timestamp >= h[p[j]].timestamp } }

\* GrpcProject.task_show: task = get_task(task_id), None when the id is not
\* stored
GetTask ==
    /\ FgIdle
    /\ \E id \in Ids :
         IF ~HasTask(txTasks, id)
           THEN ctx' = [ctx EXCEPT !["fg"] =
                   [Blank EXCEPT !.top = "getTask", !.pc = "g_ret", !.tid = id]]
           ELSE \E h \in GetTaskHistory(txHistory, id) :
                   ctx' = [ctx EXCEPT !["fg"] =
                      [Blank EXCEPT !.top = "getTask", !.pc = "g_ret", !.tid = id,
                                    !.found = TRUE, !.got = h]]
    /\ UNCHANGED <<dbTasks, dbHistory, txTasks, txHistory, notes, now, conf, cmd, threads, syncLog, faults>>

\* task_show prints the task and returns
GetTaskReturn ==
    /\ ctx["fg"].pc = "g_ret"
    /\ ctx' = [ctx EXCEPT !["fg"] = Blank]
    /\ UNCHANGED <<dbTasks, dbHistory, txTasks, txHistory, notes, now, conf, cmd, threads, syncLog, faults>>

\* the filters the CLI's task_list is given in the model
ListFilters == {Null, "completed"} \X {Null, "automated"}

\* GrpcProject.task_list: tasks = list_tasks(status=status, task_type=task_type)
TaskList ==
    /\ FgIdle
    /\ \E f \in ListFilters :
         \E listed \in ListTasks("fg", f[1], f[2]) :
            ctx' = [ctx EXCEPT !["fg"] =
               [Blank EXCEPT !.top = "listTasks", !.pc = "l_ret", !.st = f[1],
                             !.typ = f[2], !.q = listed]]
    /\ UNCHANGED <<dbTasks, dbHistory, txTasks, txHistory, notes, now, conf, cmd, threads, syncLog, faults>>

\* task_list prints the tasks and returns
TaskListReturn ==
    /\ ctx["fg"].pc = "l_ret"
    /\ ctx' = [ctx EXCEPT !["fg"] = Blank]
    /\ UNCHANGED <<dbTasks, dbHistory, txTasks, txHistory, notes, now, conf, cmd, threads, syncLog, faults>>

\* a further sync_tasks_from_config() on the running manager
CallSync ==
    /\ FgIdle
    /\ RoomFor(SyncNeeds(StatusNow, SyncQueue))
    /\ ctx' = [ctx EXCEPT !["fg"] =
          [Blank EXCEPT !.top = "sync", !.pc = "sync_next", !.q = SyncQueue]]
    /\ UNCHANGED <<dbTasks, dbHistory, txTasks, txHistory, notes, now, conf, cmd, threads, syncLog, faults>>

\* the process ends (the daemon scheduler thread with it) and the next CLI
\* command constructs a new TaskManager on the same database file
Restart ==
    /\ FgIdle
    /\ RoomFor(SyncNeeds(StatusNow, SyncQueue))
    /\ ctx' = InitCtx
    /\ threads' = 0
    /\ txTasks' = dbTasks
    /\ txHistory' = dbHistory
    /\ UNCHANGED <<dbTasks, dbHistory, notes, now, conf, cmd, syncLog, faults>>

\* time passes between two commands (the clock ticks more slowly than one
\* call runs)
Tick ==
    /\ FgIdle
    /\ now < MaxClock
    /\ now' = now + 1
    /\ UNCHANGED <<dbTasks, dbHistory, txTasks, txHistory, notes, ctx, conf, cmd, threads, syncLog, faults>>

----------------------------------------------------------------------------
(* The command line of execute_automated_task *)

\* the values a task's parameters hold after json.loads: text, integers,
\* booleans, None, and lists and objects of those (items: the elements in
\* order, with their key in an object)
StrV(x) == [k |-> "str", s |-> x, n |-> 0, b |-> FALSE, items |-> <<>>]
IntV(i) == [k |-> "int", s |-> "", n |-> i, b |-> FALSE, items |-> <<>>]
BoolV(x) == [k |-> "bool", s |-> "", n |-> 0, b |-> x, items |-> <<>>]
NoneV == [k |-> "none", s |-> "", n |-> 0, b |-> FALSE, items |-> <<>>]
Item(key, v) == [key |-> key, val |-> v]
ListV(vs) == [k |-> "list", s |-> "", n |-> 0, b |-> FALSE,
              items |-> [i \in 1..Len(vs) |-> Item("", vs[i])]]
DictV(kvs) == [k |-> "dict", s |-> "", n |-> 0, b |-> FALSE, items |-> kvs]

\* str(value), as the f-string formats a value that is no list and no dict
PyStr(v) ==
    CASE v.k = "str" -> v.s
      [] v.k = "int" -> ToString(v.n)
      [] v.k = "bool" -> IF v.b THEN "True" ELSE "False"
      [] OTHER -> "None"

\* json.dumps of a text, an integer, a boolean or None
JsonScalar(v) ==
    CASE v.k = "str" -> "\"" \o v.s \o "\""
      [] v.k = "int" -> ToString(v.n)
      [] v.k = "bool" -> IF v.b THEN "true" ELSE "false"
      [] OTHER -> "null"

\* the elements of a list or an object as json.dumps writes them, separated
\* by ", ", an object's elements as "key": value
RECURSIVE JsonItems(_, _)
JsonItems(items, isDict) ==
    IF items = <<>> THEN ""
    ELSE LET one == IF isDict
                      THEN "\"" \o Head(items).key \o "\": "
                              \o JsonScalar(Head(items).val)
                      ELSE JsonScalar(Head(items).val)
         IN IF Len(items) = 1 THEN one
            ELSE one \o ", " \o JsonItems(Tail(items), isDict)

\* json.dumps(value) for a list or a dict
JsonDumps(v) ==
    IF v.k = "dict" THEN "{" \o JsonItems(v.items, TRUE) \o "}"
                    ELSE "[" \o JsonItems(v.items, FALSE) \o "]"

\* a params_str in which every value is JSON-encoded, text included
RECURSIVE ParamsStrAllJson(_, _)
ParamsStrAllJson(acc, entries) ==
    IF entries = <<>> THEN acc
    ELSE LET e == Head(entries)
             value == IF e.val.k \in {"list", "dict"} THEN JsonDumps(e.val)
                                                      ELSE JsonScalar(e.val)
         IN ParamsStrAllJson(acc \o " --" \o e.key \o "=" \o value, Tail(entries))

\* for key, value in parameters.items(): if isinstance(value, (list, dict)):
\* value = json.dumps(value); params_str += f" --{key}={value}"
RECURSIVE ParamsStr(_, _)
ParamsStr(acc, entries) ==
    IF entries = <<>> THEN acc
    ELSE LET e == Head(entries)
             value == IF e.val.k \in {"list", "dict"} THEN JsonDumps(e.val)
                                                      ELSE PyStr(e.val)
         IN ParamsStr(acc \o " --" \o e.key \o "=" \o value, Tail(entries))

\* script_path.endswith(suffix)
EndsWith(path, suffix) ==
    /\ Len(path) >= Len(suffix)
    /\ SubSeq(path, Len(path) - Len(suffix) + 1, Len(path)) = suffix

\* cmd, from params_str = "" to the if/elif chain on the extension
Command(script_path, parameters) ==
    LET params_str == IF parameters # <<>> THEN ParamsStr("", parameters) ELSE ""
    IN IF EndsWith(script_path, ".py")
         THEN "python " \o script_path \o params_str
       ELSE IF EndsWith(script_path, ".sh")
         THEN "bash " \o script_path \o params_str
       ELSE IF EndsWith(script_path, ".js")
         THEN "node " \o script_path \o params_str
       ELSE script_path \o params_str

\* script paths and parameter mappings execute_automated_task may be given
ScriptPaths == {"job.py", "job.sh", "job.js", "job", "job.py.sh", "py"}

ParamKeys == {"n", "tags", "opt"}

ParamValues ==
    { StrV("x y"), IntV(7), BoolV(TRUE), NoneV,
      ListV(<<IntV(1), StrV("a")>>),
      DictV(<<Item("k", IntV(1)), Item("on", BoolV(FALSE))>>) }

\* the mappings of at most MaxParams entries, in their order
ParamMappings ==
    UNION { { m \in [1..n -> {Item(key, v) : key \in ParamKeys, v \in ParamValues}] :
                \A i, j \in 1..n : i # j => m[i].key # m[j].key } :
            n \in 0..MaxParams }

\* text[:200]
First200(text) == SubSeq(text, 1, IF Len(text) < 200 THEN Len(text) ELSE 200)

\* a comment that is the captured text cut to 200 characters and nothing else
BareComment(text) == First200(text)

\* f"Zadanie wykonane pomyślnie: {stdout[:200]}" (the Polish letters written
\* without their marks)
CompletedComment(stdout) == "Zadanie wykonane pomyslnie: " \o First200(stdout)

\* f"Błąd: {stderr[:200]}"
FailedComment(stderr) == "Blad: " \o First200(stderr)

\* n times the character ch
RECURSIVE Repeat(_, _)
Repeat(ch, n) ==
    IF n = 0 THEN ""
    ELSE IF n % 2 = 0 THEN LET half == Repeat(ch, n \div 2) IN half \o half
    ELSE ch \o Repeat(ch, n - 1)

\* captured output of n characters that begins with "<" and, from two
\* characters on, ends with ">"
Output(ch, n) ==
    IF n = 0 THEN ""
    ELSE IF n = 1 THEN "<"
    ELSE "<" \o Repeat(ch, n - 2) \o ">"

\* outputs shorter than, as long as and longer than 200 characters
Outputs(ch) == { Output(ch, n) : n \in {0, 1, 199, 200, 201, MaxOutput} }

\* process.returncode
ReturnCodes == {0, 1, 2}

\* the state before a command is built, for each script path and mapping
InitCommand ==
    /\ dbTasks = {}
    /\ dbHistory = <<>>
    /\ txTasks = {}
    /\ txHistory = <<>>
    /\ notes = <<>>
    /\ now = 1
    /\ conf = Settings(TwoTasks, "ok", TRUE, TRUE)
    /\ ctx = [c \in Threads |-> Blank]
    /\ syncLog = NoSyncLog
    /\ faults = 0
    /\ threads = 0
    /\ \/ \E s \in ScriptPaths, p \in ParamMappings :
             cmd = [NoCommand EXCEPT !.script = s, !.parameters = p]
       \/ \E code \in ReturnCodes, out \in Outputs("o"), err \in Outputs("e") :
             cmd = [NoCommand EXCEPT !.returncode = code, !.stdout = out,
                                     !.stderr = err]

\* execute_automated_task builds the command line
BuildCommand ==
    /\ cmd.line = Null
    /\ cmd.script # Null
    /\ cmd' = [cmd EXCEPT !.line = Command(cmd.script, cmd.parameters)]
    /\ UNCHANGED <<dbTasks, dbHistory, txTasks, txHistory, notes, now, ctx, conf,
                   syncLog, faults, threads>>

\* process.communicate() has returned: the comment of the final status write
TerminalComment ==
    /\ cmd.comment = Null
    /\ cmd.returncode \in ReturnCodes
    /\ cmd' = [cmd EXCEPT !.comment =
                  IF cmd.returncode = 0 THEN CompletedComment(cmd.stdout)
                                        ELSE FailedComment(cmd.stderr)]
    /\ UNCHANGED <<dbTasks, dbHistory, txTasks, txHistory, notes, now, ctx, conf,
                   syncLog, faults, threads>>

NextCommand ==
    \/ BuildCommand
    \/ TerminalComment

SpecCommand == InitCommand /\ [][NextCommand]_vars

----------------------------------------------------------------------------
Step(c) ==
    \/ AutSelect(c)
    \/ AutWrite(c)
    \/ UtsSelect(c)
    \/ UtsWrite(c)
    \/ FHistory(c)
    \/ FNotify(c)
    \/ FCommit(c)
    \/ FExcept(c)
    \/ FReturn(c)
    \/ SyncNext(c)
    \/ SyncReturn(c)
    \/ ExecGet(c)
    \/ ExecScript(c)
    \/ ExecSpawn(c)
    \/ ExecExcept(c)
    \/ ExecReturn(c)
    \/ SchedScan(c)

Next ==
    \/ \E c \in Threads : Step(c)
    \/ CallUpsert
    \/ CallSetStatus
    \/ CallUpdateTaskStatus
    \/ CallExecute
    \/ CallSync
    \/ GetTask
    \/ GetTaskReturn
    \/ TaskList
    \/ TaskListReturn
    \/ Restart
    \/ Tick

Spec == Init /\ [][Next]_vars

\* The program together with status transitions issued in the scheduler
\* context while the foreground is at work
NextOverlap ==
    \/ Next
    \/ SchedSetStatus

SpecOverlap == Init /\ [][NextOverlap]_vars

\* The same program on storage whose writes and commits may fail
SpecFaults == InitFaults /\ [][Next]_vars

\* The program with a scheduler thread that keeps running: the operating
\* system gives the daemon thread its turns and schedule.every(1).minutes
\* keeps the job due
SpecFair == Init /\ [][Next]_vars /\ WF_vars(Step("sched"))

----------------------------------------------------------------------------
(* Properties *)

Last(h) == h[Len(h)]

\* every task of the table has history and its status is the new_status of
\* its latest history row
Consistent(tasks, hist) ==
    \A r \in tasks :
        LET h == HistoryOf(hist, r.id) IN
        h # <<>> /\ Last(h).new_status = r.status

\* the status stored for id in a table (Null when the id is not stored)
StatusIn(tasks, id) ==
    IF HasTask(tasks, id) THEN FetchTask(tasks, id).status ELSE Null

\* no call is in progress in either thread
Quiescent == FgIdle /\ ctx["sched"].pc \in {"off", "sleep"}

\* add_or_update_task / update_task_status has just returned in thread c
Returned(c, fn) == ctx[c].pc = "f_ret" /\ ctx[c].fn = fn /\ ctx[c].ret # "raise"

\* a task row without its updated_at column
Strip(r) ==
    [id |-> r.id, type |-> r.type, status |-> r.status, schedule |-> r.schedule,
     script |-> r.script]

\* C1: after any sequence of upsert, setStatus, execute and sync operations,
\* every stored task has at least one history entry and its status equals the
\* new_status of the most recently written history entry of its id.
C1_StatusIsLatestHistory ==
    Quiescent => Consistent(dbTasks, dbHistory)

\* C2: every upsert and status transition is all-or-nothing: if a storage step
\* (row write, history insert, commit) fails, the call returns false and both
\* tables are as before the call; when it returns true, a changed or new status
\* is committed together with exactly its history entry.
C2_AllOrNothing ==
    \A c \in Threads :
        ctx[c].pc = "f_ret" /\ ctx[c].ret # "raise" =>
            LET r == ctx[c] IN
            /\ r.flt # {} =>
                 /\ r.ret = "false"
                 /\ dbTasks = r.pre.tasks
                 /\ dbHistory = r.pre.hist
            /\ (r.ret = "true" /\ StatusIn(dbTasks, r.tid) # StatusIn(r.pre.tasks, r.tid)) =>
                 /\ Len(dbHistory) = Len(r.pre.hist) + 1
                 /\ Last(dbHistory).task_id = r.tid
                 /\ Last(dbHistory).new_status = StatusIn(dbTasks, r.tid)

\* C3: with the foreground thread and the scheduler thread interleaving step
\* by step on the shared connection, in every committed state (also in the
\* middle of a call of either thread) every task's status is the new_status
\* of its latest committed history entry.
C3_CommittedStateConsistent ==
    ctx["sched"].pc # "off" =>
        \A r \in dbTasks :
            /\ HistoryOf(dbHistory, r.id) # <<>>
            /\ Last(HistoryOf(dbHistory, r.id)).new_status = r.status

\* C4: once a task is completed or failed, its committed status is changed
\* only by an explicit caller request (a status change or a direct upsert),
\* never by execute, a scheduler scan or a config sync.
C4_TerminalStatusKept ==
    [][\A id \in Ids :
          ( /\ StatusIn(dbTasks, id) \in {"completed", "failed"}
            /\ StatusIn(dbTasks', id) # StatusIn(dbTasks, id) )
          => \E c \in Threads :
                /\ ctx[c].pc = "f_commit"
                /\ ctx[c].top \in {"setStatus", "upsert"}]_vars

\* C5: running syncFromConfig a second time with the same definitions appends
\* no history entry and emits no notification.
C5_SecondSyncSilent ==
    syncLog.n = 2 =>
        /\ syncLog.b.hist = syncLog.a.hist
        /\ syncLog.b.notes = <<>>

C7_SameStatusNoOp ==
    \A c \in Threads :
        ( /\ Returned(c, "uts")
          /\ StatusIn(ctx[c].pre.tasks, ctx[c].tid) = ctx[c].st )
        => /\ ctx[c].ret = "true"
           /\ txTasks = ctx[c].pre.tasks
           /\ dbTasks = ctx[c].pre.tasks
           /\ txHistory = ctx[c].pre.hist
           /\ dbHistory = ctx[c].pre.hist
           /\ notes = ctx[c].pre.notes

C7_Witness ==
    \E c \in Threads :
        /\ Returned(c, "uts")
        /\ StatusIn(ctx[c].pre.tasks, ctx[c].tid) = ctx[c].st
        /\ ctx[c].ret = "true"
        /\ Len(ctx[c].pre.hist) > 1

\* C8: an upsert of an id that is not stored, when it succeeds, leaves exactly
\* one row of the id and exactly one new history entry (old_status null,
\* new_status the given status, changed_by "system"), and with notifications
\* on posts exactly one "task.created".
C8_NewIdUpsert ==
    \A c \in Threads :
        ( /\ Returned(c, "aut")
          /\ ~HasTask(ctx[c].pre.tasks, ctx[c].tid)
          /\ ctx[c].ret = "true" )
        => LET r == ctx[c] IN
           /\ Cardinality({x \in dbTasks : x.id = r.tid}) = 1
           /\ Cardinality(dbTasks) = Cardinality(r.pre.tasks) + 1
           /\ Len(dbHistory) = Len(r.pre.hist) + 1
           /\ Last(dbHistory).task_id = r.tid
           /\ Last(dbHistory).old_status = Null
           /\ Last(dbHistory).new_status = r.st
           /\ Last(dbHistory).changed_by = "system"
           /\ conf.notify = "ok" =>
                /\ Len(notes) = Len(r.pre.notes) + 1
                /\ Last(notes).event = "task.created"
                /\ Last(notes).task_id = r.tid

\* C9: an upsert of a stored id with another status, when it succeeds, appends
\* exactly one history entry (old_status the stored status, new_status the new
\* one, changed_by "system"), committed with the row update, and with
\* notifications on posts exactly one "task.status_changed".
C9_ChangedStatusUpsert ==
    \A c \in Threads :
        ( /\ Returned(c, "aut")
          /\ HasTask(ctx[c].pre.tasks, ctx[c].tid)
          /\ StatusIn(ctx[c].pre.tasks, ctx[c].tid) # ctx[c].st
          /\ ctx[c].ret = "true" )
        => LET r == ctx[c] IN
           /\ StatusIn(dbTasks, r.tid) = r.st
           /\ Len(dbHistory) = Len(r.pre.hist) + 1
           /\ Last(dbHistory).task_id = r.tid
           /\ Last(dbHistory).old_status = StatusIn(r.pre.tasks, r.tid)
           /\ Last(dbHistory).new_status = r.st
           /\ Last(dbHistory).changed_by = "system"
           /\ conf.notify = "ok" =>
                /\ Len(notes) = Len(r.pre.notes) + 1
                /\ Last(notes).event = "task.status_changed"
                /\ Last(notes).task_id = r.tid

C11_UnknownIdRejected ==
    \A c \in Threads :
        (Returned(c, "uts") /\ ~HasTask(ctx[c].pre.tasks, ctx[c].tid))
        => /\ ctx[c].ret = "false"
           /\ txTasks = ctx[c].pre.tasks
           /\ dbTasks = ctx[c].pre.tasks
           /\ txHistory = ctx[c].pre.hist
           /\ dbHistory = ctx[c].pre.hist
           /\ notes = ctx[c].pre.notes

C11_Witness ==
    \E c \in Threads :
        /\ Returned(c, "uts")
        /\ ctx[c].top = "setStatus"
        /\ ~HasTask(ctx[c].pre.tasks, ctx[c].tid)
        /\ ctx[c].pre.tasks # {}
        /\ ctx[c].ret = "false"

\* C12: a status-change request whose new status is none of the five
\* statuses is rejected and changes neither the task row nor the history log,
\* whether it comes through the CLI's task_update or straight to
\* update_task_status.
C12_InvalidStatusRejected ==
    /\ \A r \in dbTasks \cup txTasks : r.status \in TaskStatus
    /\ \A i \in 1..Len(dbHistory) : dbHistory[i].new_status \in TaskStatus
    /\ \A c \in Threads :
         (Returned(c, "uts") /\ ctx[c].st \notin TaskStatus)
         => /\ ctx[c].ret = "false"
            /\ dbTasks = ctx[c].pre.tasks
            /\ dbHistory = ctx[c].pre.hist

\* C13: for a stored automated task whose script exists, execute returns true
\* exactly when the child process exited with code 0, and when it returns the
\* task is completed if it returned true and failed if it returned false.
C13_ExecuteOutcome ==
    \A c \in Threads :
        ( /\ ctx[c].pc = "e_ret" /\ ctx[c].eret # "raise"
          /\ ctx[c].eout \in {"exit0", "exit1", "raised"} )
        => /\ ctx[c].eret = "true" <=> ctx[c].eout = "exit0"
           /\ StatusIn(dbTasks, ctx[c].eid) =
                 IF ctx[c].eret = "true" THEN "completed" ELSE "failed"

\* C14: execute on an automated task whose script is empty or names a path
\* that does not exist leaves the task failed and returns false, without
\* spawning a child process.
C14_MissingScriptFails ==
    \A c \in Threads :
        (ctx[c].pc = "e_ret" /\ ctx[c].eret # "raise" /\ ctx[c].eout = "no_script")
        => /\ ctx[c].eret = "false"
           /\ StatusIn(dbTasks, ctx[c].eid) = "failed"

\* C15: execute on an id that is not stored, or on a task whose type is not
\* automated, returns false at once: no process is spawned and the task's
\* status and the history log stay as they are.
C15_ExecuteRejects ==
    [][\A c \in Threads :
          ( /\ ctx[c].pc = "exec_get"
            /\ ctx'[c] # ctx[c]
            /\ \/ ~HasTask(txTasks, ctx[c].eid)
               \/ FetchTask(txTasks, ctx[c].eid).type # "automated" )
          => /\ ctx'[c].pc = "e_ret"
             /\ ctx'[c].eret = "false"
             /\ ctx'[c].eout = Null
             /\ UNCHANGED <<dbTasks, dbHistory, txTasks, txHistory, notes>>]_vars

C15_Witness ==
    \E c \in Threads :
        /\ ctx[c].pc = "e_ret"
        /\ ctx[c].eret = "false"
        /\ ctx[c].eout = Null
        /\ HasTask(dbTasks, ctx[c].eid)
        /\ FetchTask(dbTasks, ctx[c].eid).type = "manual"
        /\ dbTasks = txTasks

\* C16: an exception raised while spawning or talking to the child process is
\* resolved inside execute: the task ends failed, its latest history entry
\* carries the exception text, execute returns false and no exception leaves
\* execute.
C16_SpawnExceptionResolved ==
    \A c \in Threads :
        (ctx[c].pc = "e_ret" /\ ctx[c].eout = "raised")
        => /\ ctx[c].eret = "false"
           /\ StatusIn(dbTasks, ctx[c].eid) = "failed"
           /\ HistoryOf(dbHistory, ctx[c].eid) # <<>>
           /\ Last(HistoryOf(dbHistory, ctx[c].eid)).new_status = "failed"
           /\ Last(HistoryOf(dbHistory, ctx[c].eid)).comment = "exception"

\* C17: each setStatus call that names a status other than the current one
\* and succeeds appends exactly one history entry after the existing ones,
\* with old_status the status before the call, new_status the requested one
\* and the given changed_by and comment, and leaves the task in the requested
\* status; so a task created with s0 and given k such calls has k+1 entries
\* in write order.
C17_HistoryFollowsCalls ==
    \A c \in Threads :
        ( /\ Returned(c, "uts")
          /\ ctx[c].top = "setStatus"
          /\ HasTask(ctx[c].pre.tasks, ctx[c].tid)
          /\ StatusIn(ctx[c].pre.tasks, ctx[c].tid) # ctx[c].st
          /\ ctx[c].ret = "true" )
        => LET r == ctx[c] IN
           /\ StatusIn(dbTasks, r.tid) = r.st
           /\ Len(dbHistory) = Len(r.pre.hist) + 1
           /\ SubSeq(dbHistory, 1, Len(r.pre.hist)) = r.pre.hist
           /\ Last(dbHistory).task_id = r.tid
           /\ Last(dbHistory).old_status = StatusIn(r.pre.tasks, r.tid)
           /\ Last(dbHistory).new_status = r.st
           /\ Last(dbHistory).changed_by = r.by
           /\ Last(dbHistory).comment = r.cmt

\* the sequence h from its last element to its first
Reverse(h) == [i \in 1..Len(h) |-> h[Len(h) + 1 - i]]

\* C18: getTask(id) returns the task's history in exact reverse write order,
\* newest entry first, also when entries of the task carry one timestamp.
C18_HistoryNewestFirst ==
    (ctx["fg"].pc = "g_ret" /\ ctx["fg"].found)
    => ctx["fg"].got = Reverse(HistoryOf(txHistory, ctx["fg"].tid))

\* the elements of the sequence s
Range(s) == {s[i] : i \in 1..Len(s)}

\* C19: listTasks returns exactly the stored tasks that satisfy every given
\* filter (here status and type), each once, by their current status; this
\* for the CLI's listing and for the listing a scheduler scan starts with.
C19_ListIsExact ==
    [][/\ (ctx["fg"].pc = "idle" /\ ctx'["fg"].pc = "l_ret") =>
            /\ Range(ctx'["fg"].q) =
                 {r \in txTasks :
                    /\ ctx'["fg"].st = Null \/ r.status = ctx'["fg"].st
                    /\ ctx'["fg"].typ = Null \/ r.type = ctx'["fg"].typ}
            /\ Len(ctx'["fg"].q) = Cardinality(Range(ctx'["fg"].q))
       /\ (ctx["sched"].pc = "sleep" /\ ctx'["sched"].pc = "scan_next") =>
            Range(ctx'["sched"].q) = {r \in txTasks : r.type = "automated"}]_vars

Eligible(id) ==
    \E r \in dbTasks :
        /\ r.id = id
        /\ r.type = "automated"
        /\ r.status = "pending"
        /\ r.schedule \notin {Null, ""}

\* a scan of the scheduler thread has just called execute_automated_task(id)
Invoked(id) ==
    /\ ctx["sched"].pc = "exec_get"
    /\ ctx["sched"].econt = "scan"
    /\ ctx["sched"].eid = id

\* C21: with the scheduler thread running fairly, an automated task that
\* stays pending with a non-empty schedule is eventually passed to the
\* executor by a scan.
C21_EligibleEventuallyExecuted ==
    \A id \in Ids : Eligible(id) ~> (Invoked(id) \/ ~Eligible(id))

\* an error was raised inside the scan the scheduler thread is running: the
\* listing raised (it came back empty although automated tasks are stored),
\* or an exception escaped the executor
ScanErrored ==
    \/ /\ ctx["sched"].pc = "scan_next"
       /\ ctx["sched"].q = <<>>
       /\ \E r \in dbTasks : r.type = "automated"
    \/ /\ ctx["sched"].pc = "e_ret"
       /\ ctx["sched"].econt = "scan"
       /\ ctx["sched"].eret = "raise"

\* the process was started anew: the manager is being constructed and has not
\* started its scheduler thread yet
ProcessRestarted ==
    /\ ctx["sched"].pc = "off"
    /\ ctx["fg"].constructing

\* C22: an error raised inside a scan never ends the scheduler loop: the
\* thread goes back to waiting in its loop, and from there it runs a further
\* scan (unless the whole process is started anew).
C22_LoopSurvivesScanError ==
    /\ ScanErrored ~> (ctx["sched"].pc = "sleep" \/ ProcessRestarted)
    /\ (ctx["sched"].pc = "sleep") ~>
          (ctx["sched"].pc = "scan_next" \/ ProcessRestarted)

\* a scan whose listing raised, with the scheduler loop still running it
C22_Witness ==
    /\ ScanErrored
    /\ ctx["sched"].top = "scan"
    /\ \E r \in dbTasks : DueNow(r) /\ r.type = "automated"

\* the ids on the work list of the scan the scheduler thread is running
ScanIds(q) == { q[i].id : i \in 1..Len(q) }

C24_OneSchedulerAtInit ==
    /\ [](/\ threads <= 1
          /\ ctx["sched"].pc # "off" => threads = 1
          /\ threads = 1 => conf.enabled /\ conf.auto_update_status
          /\ ~conf.enabled =>
                /\ threads = 0
                /\ ~ctx["fg"].constructing)
    /\ [][threads' > threads =>
             /\ ctx["fg"].constructing
             /\ ctx["fg"].pc = "sync_ret"
             /\ ctx'["sched"].pc = "sleep"]_vars

\* the constructor of an enabled manager with auto_update_status on has
\* synced and started the scheduler thread
C24_Witness ==
    /\ threads = 1
    /\ ctx["sched"].pc = "sleep"
    /\ ctx["fg"].pc = "idle"
    /\ dbTasks # {}

\* thread c has returned from, or left by an exception, an update_task_status
\* for a stored task in another status, while the other thread was inside an
\* update_task_status of its own for a different task
OverlappedSetStatus(c, d) ==
    /\ c # d
    /\ ctx[c].pc = "f_ret" /\ ctx[c].fn = "uts" /\ ctx[c].top = "setStatus"
    /\ ctx[d].pc \in {"uts_select", "uts_write", "f_history", "f_notify",
                      "f_commit", "f_except", "f_ret"}
    /\ ctx[d].fn = "uts" /\ ctx[d].top = "setStatus"
    /\ ctx[c].tid # ctx[d].tid
    /\ HasTask(ctx[c].pre.tasks, ctx[c].tid)
    /\ StatusIn(ctx[c].pre.tasks, ctx[c].tid) # ctx[c].st
    /\ ctx[c].st \in TaskStatus

\* C25: two setStatus calls on different stored tasks, one in the foreground
\* and one in the scheduler context, each naming a new status, both return
\* true, and each leaves its task in the requested status with exactly one
\* new history entry for that transition.
C25_ConcurrentSetStatus ==
    \A c, d \in Threads :
        (OverlappedSetStatus(c, d) /\ conf.notify = "ok") =>
            LET r == ctx[c]
                h == HistoryOf(dbHistory, r.tid)
            IN /\ r.ret = "true"
               /\ StatusIn(dbTasks, r.tid) = r.st
               /\ Len(h) = Len(HistoryOf(r.pre.hist, r.tid)) + 1
               /\ Last(h).old_status = StatusIn(r.pre.tasks, r.tid)
               /\ Last(h).new_status = r.st

C27_NotificationNeverFailsCall ==
    \A c \in Threads :
        ( /\ ctx[c].pc = "f_ret"
          /\ SameThread(c)
          /\ ctx[c].flt = {}
          /\ \/ ctx[c].fn = "aut"
             \/ ctx[c].fn = "uts" /\ ctx[c].found /\ ctx[c].old # ctx[c].st )
        => /\ ctx[c].ret = "true"
           /\ StatusIn(dbTasks, ctx[c].tid) = ctx[c].st

\* C28: the type of a stored task never changes: every committed row keeps
\* the type it was created with, also when an upsert or a sync names its id
\* with the other type.
C28_TypeNeverChanges ==
    [][\A r \in dbTasks : \A n \in dbTasks' : n.id = r.id => n.type = r.type]_vars

\* the sequence a is the beginning of the sequence b
IsPrefix(a, b) == Len(a) <= Len(b) /\ SubSeq(b, 1, Len(a)) = a

\* C29: the history log is append-only: in every step the committed history
\* of each task is a prefix of its committed history after the step, so no
\* committed entry is ever removed, changed or reordered.
C29_HistoryAppendOnly ==
    [][\A id \in Ids :
          IsPrefix(HistoryOf(dbHistory, id), HistoryOf(dbHistory', id))]_vars

\* a task with an earlier committed entry has had a further one committed
\* besides the entries of another task
C29_Witness ==
    /\ \E id \in Ids : Len(HistoryOf(dbHistory, id)) >= 2
    /\ \E id \in Ids : Len(HistoryOf(dbHistory, id)) = 1
    /\ txHistory = dbHistory

\* C30: execute does not retry: a call that has spawned its child process
\* never comes back to the spawn; and the scheduler never invokes the executor
\* for a task whose committed status is failed (a failed task is left alone
\* until its status is pending again).
C30_NoRetries ==
    /\ [](\A c \in Threads : ctx[c].pc = "exec_spawn" => ctx[c].eout = Null)
    /\ [][\A id \in Ids :
            ( /\ ctx["sched"].pc = "scan_next"
              /\ ctx'["sched"].pc = "exec_get"
              /\ ctx'["sched"].eid = id )
            => StatusIn(dbTasks, id) # "failed"]_vars

\* an execute has spawned one child, which exited with a nonzero code, and
\* has returned with the task failed, while the scheduler runs a scan
C30_Witness ==
    /\ ctx["fg"].pc = "e_ret"
    /\ ctx["fg"].eout = "exit1"
    /\ ctx["fg"].eret = "false"
    /\ StatusIn(dbTasks, ctx["fg"].eid) = "failed"
    /\ ctx["sched"].pc = "scan_next"

\* C31: the status of every stored task and the new_status of every history
\* entry is one of pending, in_progress, completed, blocked, failed,
\* whatever status was passed to an upsert, a sync or a setStatus.
C31_StatusesInEnum ==
    /\ \A r \in dbTasks : r.status \in TaskStatus
    /\ \A i \in 1..Len(dbHistory) : dbHistory[i].new_status \in TaskStatus

\* the history entry execute writes when it moves its task from old to new
SystemEntry(h, old, new) ==
    /\ h.old_status = old
    /\ h.new_status = new
    /\ h.changed_by = "system"

\* C32: an execute of a pending automated task has appended (pending,
\* in_progress) by "system" when it comes to spawn the script, and when it
\* returns after the process exited or the script was found missing it has
\* appended exactly two entries: that one, then (in_progress, completed) or
\* (in_progress, failed) by "system".
C32_ExecuteAppendsTwo ==
    \A c \in Threads :
        LET r == ctx[c]
            before == HistoryOf(r.epre.hist, r.eid)
            h == HistoryOf(dbHistory, r.eid)
        IN
        /\ ( /\ r.pc = "exec_spawn"
             /\ StatusIn(r.epre.tasks, r.eid) = "pending" )
           => /\ Len(h) = Len(before) + 1
              /\ SubSeq(h, 1, Len(before)) = before
              /\ SystemEntry(h[Len(h)], "pending", "in_progress")
        /\ ( /\ r.pc = "e_ret"
             /\ r.eret # "raise"
             /\ r.eout \in {"exit0", "exit1", "no_script"}
             /\ StatusIn(r.epre.tasks, r.eid) = "pending" )
           => /\ Len(h) = Len(before) + 2
              /\ SubSeq(h, 1, Len(before)) = before
              /\ SystemEntry(h[Len(h) - 1], "pending", "in_progress")
              /\ SystemEntry(h[Len(h)], "in_progress",
                             IF r.eout = "exit0" THEN "completed" ELSE "failed")

C34_RowMutations ==
    [][dbTasks' # dbTasks =>
         \E c \in Threads :
            LET r == ctx[c] IN
            /\ r.pc = "f_commit"
            /\ r.fn \in {"aut", "uts"}
            /\ \A id \in Ids :
                  ( /\ HasTask(dbTasks, id)
                    /\ StatusIn(dbTasks', id) # StatusIn(dbTasks, id) )
                  => LET h == HistoryOf(dbHistory', id) IN
                     /\ Len(h) = Len(HistoryOf(dbHistory, id)) + 1
                     /\ Last(h).old_status = StatusIn(dbTasks, id)
                     /\ Last(h).new_status = StatusIn(dbTasks', id)
            /\ ( /\ r.fn = "aut"
                 /\ HasTask(dbTasks, r.tid)
                 /\ StatusIn(dbTasks, r.tid) = r.st )
               => /\ dbHistory' = dbHistory
                  /\ notes = r.pre.notes
                  /\ FetchTask(dbTasks', r.tid) =
                        [id |-> r.tid, type |-> r.typ, status |-> r.st,
                         schedule |-> r.sch, script |-> r.scr,
                         updated_at |-> r.t]]_vars

\* the interpreter the extension of the script calls for, with its blank
ClaimedPrefix(path) ==
    CASE EndsWith(path, ".py") -> "python "
      [] EndsWith(path, ".sh") -> "bash "
      [] EndsWith(path, ".js") -> "node "
      [] OTHER -> ""

\* one " --key=value" flag per entry, in the order of the mapping: lists and
\* objects JSON-encoded, other values in their own text
RECURSIVE ClaimedFlags(_)
ClaimedFlags(entries) ==
    IF entries = <<>> THEN ""
    ELSE LET e == entries[Len(entries)]
             text == IF e.val.k \in {"list", "dict"} THEN JsonDumps(e.val)
                                                     ELSE PyStr(e.val)
         IN ClaimedFlags(SubSeq(entries, 1, Len(entries) - 1))
               \o " --" \o e.key \o "=" \o text

\* C35: the command execute builds is the interpreter for the script's
\* extension (python for .py, bash for .sh, node for .js, none otherwise),
\* then the script path, then one --key=value flag per parameter in mapping
\* order, with lists and objects JSON-encoded and other values as they are.
C35_CommandLine ==
    cmd.line # Null =>
        cmd.line = ClaimedPrefix(cmd.script) \o cmd.script
                      \o ClaimedFlags(cmd.parameters)

\* the command of a Python script with a text parameter and then a list
C35_Witness ==
    /\ cmd.script = "job.py"
    /\ cmd.parameters = <<Item("n", StrV("x y")),
                          Item("tags", ListV(<<IntV(1), StrV("a")>>))>>
    /\ cmd.line = "python job.py --n=x y --tags=[1, \"a\"]"

\* the smaller of two numbers
Min(a, b) == IF a < b THEN a ELSE b

\* comment is label followed by the first 200 characters of text
LabelThenFirst200(comment, label, text) ==
    /\ Len(comment) = Len(label) + Min(200, Len(text))
    /\ SubSeq(comment, 1, Len(label)) = label
    /\ SubSeq(comment, Len(label) + 1, Len(comment)) =
          SubSeq(text, 1, Len(comment) - Len(label))

\* C36 as stated: the comment of the terminal entry is exactly the first 200
\* characters of stdout when the exit code is 0 and of stderr otherwise, so
\* it is never longer than 200 characters.
C36_CommentIsFirst200 ==
    cmd.comment # Null =>
        /\ LabelThenFirst200(cmd.comment, "",
              IF cmd.returncode = 0 THEN cmd.stdout ELSE cmd.stderr)
        /\ Len(cmd.comment) <= 200

\* C36, amended: the comment of the terminal entry is a fixed label followed
\* by the first 200 characters of the captured stdout (exit code 0, label
\* "Zadanie wykonane pomyslnie: ") or of the captured stderr (nonzero exit
\* code, label "Blad: "), so it is never longer than 228 or 206 characters.
C36_CommentIsLabelAndFirst200 ==
    cmd.comment # Null =>
        IF cmd.returncode = 0
          THEN /\ LabelThenFirst200(cmd.comment, "Zadanie wykonane pomyslnie: ",
                                    cmd.stdout)
               /\ Len(cmd.comment) <= 228
          ELSE /\ LabelThenFirst200(cmd.comment, "Blad: ", cmd.stderr)
               /\ Len(cmd.comment) <= 206

\* the comment built after a process that exited with 0 and wrote more than
\* 200 characters to stdout
C36_Witness ==
    /\ cmd.comment # Null
    /\ cmd.returncode = 0
    /\ Len(cmd.stdout) > 200
    /\ Len(cmd.comment) = 228

\* the creation entries of a task: its history entries with no old status
CreationEntries(hist, id) ==
    { i \in 1..Len(HistoryOf(hist, id)) : HistoryOf(hist, id)[i].old_status = Null }

\* C37: every stored task has exactly one history entry with a null
\* old_status, that entry is the oldest entry of the task, and no history
\* entry has a null new_status.
C37_OneCreationEntry ==
    /\ \A r \in dbTasks : CreationEntries(dbHistory, r.id) = {1}
    /\ \A i \in 1..Len(dbHistory) : dbHistory[i].new_status # Null

\* C38: whenever execute has come to spawn the child process of a task, the
\* stored status of that task is in_progress: when the transition to
\* in_progress did not take effect, the script is not run.
C38_SpawnOnlyInProgress ==
    \A c \in Threads :
        ctx[c].pc = "exec_spawn" =>
            /\ StatusIn(dbTasks, ctx[c].eid) = "in_progress"
            /\ StatusIn(txTasks, ctx[c].eid) = "in_progress"

\* the notification that goes with a history entry
NotificationFor(h) ==
    [event |-> IF h.old_status = Null THEN "task.created" ELSE "task.status_changed",
     task_id |-> h.task_id, old_status |-> h.old_status, new_status |-> h.new_status]

\* C39: with notify_assignees disabled no notification is ever emitted; with
\* it enabled and a webhook that delivers both events, when an upsert or a
\* status transition returns, the notifications it emitted are, in order, one
\* for each history entry it committed and no other: none for a call that
\* was rolled back.
C39_NotificationsMatchHistory ==
    /\ conf.notify = "off" => notes = <<>>
    /\ \A c \in Threads :
          ctx[c].pc = "f_ret" /\ conf.notify = "ok" =>
             LET r == ctx[c]
                 emitted == SubSeq(notes, Len(r.pre.notes) + 1, Len(notes))
                 committed == SubSeq(dbHistory, Len(r.pre.hist) + 1, Len(dbHistory))
             IN
             /\ Len(emitted) = Len(committed)
             /\ \A i \in 1..Len(emitted) : emitted[i] = NotificationFor(committed[i])

====
